---- MODULE Spec2Model ----
\* A model of the SAI Telegram bot (src/bot/main.py, src/bot/graphql.py):
\* the command handlers, the callback (pagination) handler, the per-user
\* session store context.user_data and the page arithmetic they share.
EXTENDS Integers, Sequences, FiniteSets, TLC

\* ------------------------------------------------------------------ bounds
\* Largest number of trades the data source returns in one fetch
MaxTrades == 12
\* Largest number of prices the data source returns in one fetch
MaxPrices == 11
\* Number of updates (commands, button presses, restarts) handled in one run
MaxSteps == 3
\* Number of bot messages of the chat the model keeps track of
MaxMsgs == 2

\* ------------------------------------------------------- program constants
\* send_trades_page(page_size=5)
TradesPageSize == 5
\* format_prices(page_size=10), start_idx = page * 10
PricesPageSize == 10
\* sort_key: token.get("id", 9999)
MissingIdKey == 9999

\* -------------------------------------------------------------- the inputs
Users == {"u1", "u2"}
\* the users of the conversations that Spec follows
Talking == {"u1"}
\* wallet addresses (one Ethereum style, one Nibiru style), as strings
Addresses == {<<"0xab">>, <<"nibi1q">>}
\* how many records the data source holds when it answers a fetch
TradeCounts == {0, MaxTrades}
PriceCounts == {0, MaxPrices}
\* the shape of an account's trade history: the first address has open trades
\* only, the second has open and closed ones
LedgerOf(address) == IF address = <<"0xab">> THEN "allopen" ELSE "mixed"

Min(a, b) == IF a < b THEN a ELSE b
Max(a, b) == IF a > b THEN a ELSE b

\* ----------------------------------------------------------------- strings
\* A string is a sequence of tokens; ":" and "_" are tokens of their own, so
\* that concatenation, startswith and split act on the delimiters as Python's.
NoData == <<>>

\* str.lower() / str.upper(), token by token
LowerTok(t) ==
    CASE t = "Open" -> "open"
      [] t = "OPEN" -> "open"
      [] t = "Closed" -> "closed"
      [] t = "CLOSED" -> "closed"
      [] t = "BTC" -> "btc"
      [] t = "Btc" -> "btc"
      [] t = "ETH" -> "eth"
      [] t = "Eth" -> "eth"
      [] t = "SOL" -> "sol"
      [] t = "Next" -> "next"
      [] t = "NEXT" -> "next"
      [] OTHER -> t

UpperTok(t) ==
    CASE t = "btc" -> "BTC"
      [] t = "Btc" -> "BTC"
      [] t = "eth" -> "ETH"
      [] t = "Eth" -> "ETH"
      [] t = "sol" -> "SOL"
      [] t = "alt" -> "ALT"
      [] OTHER -> t

Lower(s) == [i \in 1..Len(s) |-> LowerTok(s[i])]
Upper(s) == [i \in 1..Len(s) |-> UpperTok(s[i])]

\* str(n) of an integer, and int(s): the integers a payload can carry
IntRange == (0 - 2)..(MaxTrades + MaxSteps)
Str(n) == <<ToString(n)>>
IsInt(s) == \E n \in IntRange : Str(n) = s
ParseInt(s) == CHOOSE n \in IntRange : Str(n) = s

\* s.startswith(p)
StartsWith(s, p) == Len(s) >= Len(p) /\ SubSeq(s, 1, Len(p)) = p

\* s.split(":", maxsplit)
RECURSIVE Split(_, _)
Split(s, maxsplit) ==
    IF maxsplit = 0 \/ ~(\E i \in 1..Len(s) : s[i] = ":")
    THEN <<s>>
    ELSE LET i == CHOOSE j \in 1..Len(s) :
                      s[j] = ":" /\ \A k \in 1..(j - 1) : s[k] # ":"
         IN  <<SubSeq(s, 1, i - 1)>> \o Split(SubSeq(s, i + 1, Len(s)), maxsplit - 1)

\* Python's seq[a:b] for integers a, b (negative indices count from the end)
PyIndex(i, n) == IF i < 0 THEN Max(i + n, 0) ELSE Min(i, n)
PySlice(s, a, b) == SubSeq(s, PyIndex(a, Len(s)) + 1, PyIndex(b, Len(s)))

\* ------------------------------------------------------- the session store
\* context.user_data of one user: a dict from string keys to values
EmptyDict == [k \in {} |-> 0]
DictGet(d, k, default) == IF k \in DOMAIN d THEN d[k] ELSE default
DictPut(d, k, v) == [x \in (DOMAIN d) \cup {k} |-> IF x = k THEN v ELSE d[x]]

PricesPageKey == <<"prices", "_", "page">>

\* f"trades_{trade_type}_{address}"
TradesKey(trade_type, address) == <<"trades", "_">> \o trade_type \o <<"_">> \o address

\* f"trades_next:{address}:{trade_type}:{page}"
TradesCallbackData(address, trade_type, page) ==
    <<"trades", "_", "next", ":">> \o address \o <<":">> \o trade_type \o <<":">> \o Str(page)

PricesCallbackData == <<"prices", "_", "next">>

\* --------------------------------------------------------- the data source
\* The trade at position i of the server's answer (order_by sequence, desc).
\* isOpen is "true", "false" or "missing"; the base symbol comes in any case.
TradeRec(i, ledger) ==
    [id |-> i,
     isOpen |-> IF ledger = "allopen" \/ i % 2 = 1 THEN "true"
                ELSE IF i % 4 = 2 THEN "false" ELSE "missing",
     base |-> CASE i % 3 = 1 -> <<"BTC">>
                [] i % 3 = 2 -> <<"Btc">>
                [] OTHER -> <<"ETH">>]

\* The server's answer to the Trades query: where {trader, isOpen}, limit
ServerTrades(n, ledger, is_open) ==
    LET all == [i \in 1..n |-> TradeRec(i, ledger)]
        Match(t) == \/ is_open = "none"
                    \/ is_open = "true" /\ t.isOpen = "true"
                    \/ is_open = "false" /\ t.isOpen = "false"
    IN  SelectSeq(all, Match)

\* What a call of the data source yields: an exception (transport failure,
\* bad status, bad body, query errors) or the server's records
Failure == [ok |-> FALSE, n |-> 0]
TradeResponses == {Failure} \cup [ok : {TRUE}, n : TradeCounts]
PriceResponses == {Failure} \cup [ok : {TRUE}, n : PriceCounts]

\* A variant of fetch_trades that compares the symbols as they are written
fetch_trades_CaseSensitive(trades, base_symbol) ==
    IF base_symbol # <<>>
    THEN LET Keep(t) == t.base = base_symbol
         IN  SelectSeq(trades, Keep)
    ELSE trades

\* SaiGQLClient.fetch_trades, after self.query returned `trades`
fetch_trades(trades, base_symbol) ==
    IF base_symbol # <<>>
    THEN LET base_symbol_upper == Upper(base_symbol)
             Keep(t) == Upper(t.base) = base_symbol_upper
         IN  SelectSeq(trades, Keep)
    ELSE trades

\* The first position of the server's answer whose token id is a large number
LargeIdFrom == 8

\* The price record at position i of the server's answer (order_by token_id);
\* a record may lack the token id, and token ids need not be small numbers
PriceRec(i) ==
    [id |-> IF i >= LargeIdFrom THEN MissingIdKey + i ELSE i,
     hasId |-> i % 5 # 0,
     symbol |-> CASE i % 7 = 2 -> <<"BTC">>
                  [] i % 7 = 4 -> <<"eth">>
                  [] i % 7 = 6 -> <<"SOL">>
                  [] i % 7 = 0 -> <<>>
                  [] OTHER -> <<"alt">>,
     hasPrice |-> i % 6 # 0]

\* SaiGQLClient.fetch_prices, when the query succeeds
fetch_prices(n) == [i \in 1..n |-> PriceRec(i)]

\* ------------------------------------------------------------ the formatter
format_trade_open(trade) == [status |-> "OPEN", id |-> trade.id]
format_trade_closed(trade) == [status |-> "CLOSED", id |-> trade.id]

POPULAR_TOKENS ==
    << <<"BTC">>, <<"ETH">>, <<"USDT">>, <<"USDC">>, <<"NIBI">>,
       <<"ATOM">>, <<"SOL">>, <<"BNB">>, <<"AVAX">>, <<"MATIC">> >>

\* sort_key(p) of format_prices
sort_key(p) ==
    LET symbol == Upper(p.symbol)
    IN  IF \E i \in 1..Len(POPULAR_TOKENS) : POPULAR_TOKENS[i] = symbol
        THEN <<0, (CHOOSE i \in 1..Len(POPULAR_TOKENS) : POPULAR_TOKENS[i] = symbol) - 1>>
        ELSE <<1, IF p.hasId THEN p.id ELSE MissingIdKey>>

KeyLess(k1, k2) == k1[1] < k2[1] \/ (k1[1] = k2[1] /\ k1[2] < k2[2])

\* sorted(prices, key=sort_key): a stable sort
RECURSIVE InsertByKey(_, _)
InsertByKey(sorted, x) ==
    IF sorted = <<>> THEN <<x>>
    ELSE IF KeyLess(sort_key(x), sort_key(Head(sorted)))
         THEN <<x>> \o sorted
         ELSE <<Head(sorted)>> \o InsertByKey(Tail(sorted), x)

RECURSIVE SortedPrices(_)
SortedPrices(prices) ==
    IF prices = <<>> THEN <<>>
    ELSE InsertByKey(SortedPrices(SubSeq(prices, 1, Len(prices) - 1)), prices[Len(prices)])

\* -------------------------------------------------------- outbound messages
\* One outbound operation of a handler: a reply (new message) or an edit of the
\* message that carried the pressed button.  `data` is the callback data of the
\* "Next" button, NoData when the message has no keyboard; `src` is the whole
\* list the page was cut from.
Plain(via, text) ==
    [via |-> via, text |-> text, header |-> "", address |-> <<>>, page |-> 0,
     end_idx |-> 0, total |-> 0, items |-> <<>>, lines |-> <<>>, src |-> <<>>,
     data |-> NoData]

\* Variants of TradesPage with a slip in the arithmetic
\* ... the page starts one page too far
TradesPage_NextPageStart(formatted_trades, page, page_size) ==
    LET start_idx == (page + 1) * page_size
        end_idx == Min(start_idx + page_size, Len(formatted_trades))
    IN  [end_idx |-> end_idx,
         page_trades |-> PySlice(formatted_trades, start_idx, end_idx),
         has_more |-> end_idx < Len(formatted_trades)]

\* ... a last page of one record is not offered
TradesPage_EarlyStop(formatted_trades, page, page_size) ==
    LET start_idx == page * page_size
        end_idx == Min(start_idx + page_size, Len(formatted_trades))
    IN  [end_idx |-> end_idx,
         page_trades |-> PySlice(formatted_trades, start_idx, end_idx),
         has_more |-> end_idx + 1 < Len(formatted_trades)]

\* ... "more" is still reported at the end of the list
TradesPage_HasMoreAtEnd(formatted_trades, page, page_size) ==
    LET start_idx == page * page_size
        end_idx == Min(start_idx + page_size, Len(formatted_trades))
    IN  [end_idx |-> end_idx,
         page_trades |-> PySlice(formatted_trades, start_idx, end_idx),
         has_more |-> end_idx <= Len(formatted_trades)]

\* ... the start is pulled back into the list
TradesPage_ClampStart(formatted_trades, page, page_size) ==
    LET start_idx == Min(page * page_size, Len(formatted_trades) - 1)
        end_idx == Min(start_idx + page_size, Len(formatted_trades))
    IN  [end_idx |-> end_idx,
         page_trades |-> PySlice(formatted_trades, start_idx, end_idx),
         has_more |-> end_idx < Len(formatted_trades)]

\* ... "more" is reported while the page starts inside the list
TradesPage_HasMoreFromStart(formatted_trades, page, page_size) ==
    LET start_idx == page * page_size
        end_idx == Min(start_idx + page_size, Len(formatted_trades))
    IN  [end_idx |-> end_idx,
         page_trades |-> PySlice(formatted_trades, start_idx, end_idx),
         has_more |-> start_idx < Len(formatted_trades)]

\* The page arithmetic of send_trades_page
TradesPage(formatted_trades, page, page_size) ==
    LET start_idx == page * page_size
        end_idx == Min(start_idx + page_size, Len(formatted_trades))
    IN  [end_idx |-> end_idx,
         page_trades |-> PySlice(formatted_trades, start_idx, end_idx),
         has_more |-> end_idx < Len(formatted_trades)]

send_trades_page(address, trades, trade_type, page, page_size, is_edit) ==
    LET formatted_trades ==
            IF trade_type = <<"open">>
            THEN [i \in 1..Len(trades) |-> format_trade_open(trades[i])]
            ELSE [i \in 1..Len(trades) |-> format_trade_closed(trades[i])]
        header == IF trade_type = <<"open">> THEN "OPEN TRADES" ELSE "CLOSED TRADES"
        pg == TradesPage(formatted_trades, page, page_size)
    IN  [via |-> IF is_edit THEN "edit" ELSE "reply",
         text |-> "trades", header |-> header, address |-> address, page |-> page,
         end_idx |-> pg.end_idx, total |-> Len(formatted_trades),
         items |-> pg.page_trades, lines |-> pg.page_trades, src |-> formatted_trades,
         data |-> IF pg.has_more
                  THEN TradesCallbackData(address, trade_type, page + 1)
                  ELSE NoData]

\* format_prices: (text, has_more); the text is kept as its parts
format_prices(prices, start_idx, page_size) ==
    IF prices = <<>>
    THEN [text |-> "No prices found.", end_idx |-> 0, total |-> 0,
          page_prices |-> <<>>, lines |-> <<>>, sorted_prices |-> <<>>,
          has_more |-> FALSE]
    ELSE LET sorted_prices == SortedPrices(prices)
             end_idx == Min(start_idx + page_size, Len(sorted_prices))
             page_prices == PySlice(sorted_prices, start_idx, end_idx)
             Priced(p) == p.hasPrice
         IN  [text |-> "Oracle Prices", end_idx |-> end_idx,
              total |-> Len(sorted_prices), page_prices |-> page_prices,
              lines |-> SelectSeq(page_prices, Priced), sorted_prices |-> sorted_prices,
              has_more |-> end_idx < Len(sorted_prices)]

\* The message prices_cmd and callback_handler build from format_prices
PricesMessage(via, f, page) ==
    [via |-> via, text |-> f.text, header |-> "", address |-> <<>>, page |-> page,
     end_idx |-> f.end_idx, total |-> f.total, items |-> f.page_prices,
     lines |-> f.lines, src |-> f.sorted_prices,
     data |-> IF f.has_more THEN PricesCallbackData ELSE NoData]

\* ------------------------------------------------------------ the handlers
\* What one handler call did: the user's user_data after it, the outbound
\* operations in order, whether an exception left the handler, the number of
\* calls to the data source and the list the data-source client returned.
Result(ud, out, raised, fetches, fetched) ==
    [ud |-> ud, out |-> out, raised |-> raised, fetches |-> fetches, fetched |-> fetched]

\* A variant of fetch_failed that also forgets what the store held
fetch_failed_ClearStore(ud, via) ==
    [ud |-> EmptyDict, out |-> <<Plain(via, "error")>>, raised |-> FALSE, fetches |-> 1,
     fetched |-> <<>>]

\* The except clause of a handler, entered when the call of the data source
\* raised: one reply (or edit) with the error text
fetch_failed(ud, via) == Result(ud, <<Plain(via, "error")>>, FALSE, 1, <<>>)

\* trades_cmd's argument loop: the open/closed filter ("none" for None)
RECURSIVE ParseIsOpen(_, _)
ParseIsOpen(rest, is_open) ==
    IF rest = <<>> THEN is_open
    ELSE LET arg_lower == Lower(Head(rest))
         IN  ParseIsOpen(Tail(rest),
                         IF arg_lower = <<"open">> THEN "true"
                         ELSE IF arg_lower = <<"closed">> THEN "false"
                         ELSE is_open)

\* trades_cmd's argument loop: the base symbol (<<>> for None)
RECURSIVE ParseBaseSymbol(_, _)
ParseBaseSymbol(rest, base_symbol) ==
    IF rest = <<>> THEN base_symbol
    ELSE LET arg_lower == Lower(Head(rest))
         IN  ParseBaseSymbol(Tail(rest),
                             IF arg_lower = <<"open">> \/ arg_lower = <<"closed">>
                             THEN base_symbol
                             ELSE Upper(Head(rest)))

\* A variant of NotOpenTrade that takes only an explicit false for closed
NotOpenTrade_FalseOnly(t) == t.isOpen = "false"

IsOpenTrade(t) == t.isOpen = "true"
NotOpenTrade(t) == ~IsOpenTrade(t)

\* A variant of store_tracks that stores only the tracks that have records
store_tracks_SkipEmpty(ud, address, open_trades, closed_trades) ==
    LET ud1 == IF open_trades # <<>>
               THEN DictPut(ud, TradesKey(<<"open">>, address), open_trades)
               ELSE ud
    IN  IF closed_trades # <<>>
        THEN DictPut(ud1, TradesKey(<<"closed">>, address), closed_trades)
        ELSE ud1

\* A variant of store_tracks that starts from an empty store
store_tracks_ClearOthers(ud, address, open_trades, closed_trades) ==
    DictPut(DictPut(EmptyDict, TradesKey(<<"open">>, address), open_trades),
            TradesKey(<<"closed">>, address), closed_trades)

\* A variant of store_tracks that leaves a closed track already stored alone
store_tracks_KeepClosed(ud, address, open_trades, closed_trades) ==
    LET ud1 == DictPut(ud, TradesKey(<<"open">>, address), open_trades)
    IN  IF TradesKey(<<"closed">>, address) \in DOMAIN ud
        THEN ud1
        ELSE DictPut(ud1, TradesKey(<<"closed">>, address), closed_trades)

\* trades_cmd: "Store in context for pagination"
store_tracks(ud, address, open_trades, closed_trades) ==
    DictPut(DictPut(ud, TradesKey(<<"open">>, address), open_trades),
            TradesKey(<<"closed">>, address), closed_trades)

\* trades_cmd; resp is what the data source does when it is called
trades_cmd(ud, args, resp) ==
    IF args = <<>>
    THEN Result(ud, <<Plain("reply", "usage")>>, FALSE, 0, <<>>)
    ELSE
    LET address == args[1]
        is_open == ParseIsOpen(Tail(args), "none")
        base_symbol == ParseBaseSymbol(Tail(args), <<>>)
    IN  IF ~resp.ok
        THEN fetch_failed(ud, "reply")
        ELSE
        LET trades == fetch_trades(ServerTrades(resp.n, LedgerOf(address), is_open), base_symbol)
        IN  IF trades = <<>>
            THEN Result(ud, <<Plain("reply", "notrades")>>, FALSE, 1, trades)
            ELSE
            LET open_trades == SelectSeq(trades, IsOpenTrade)
                closed_trades == SelectSeq(trades, NotOpenTrade)
                ud2 == store_tracks(ud, address, open_trades, closed_trades)
                out_open ==
                    IF open_trades # <<>> /\ is_open \in {"none", "true"}
                    THEN <<send_trades_page(address, open_trades, <<"open">>, 0,
                                            TradesPageSize, FALSE)>>
                    ELSE <<>>
                out_closed ==
                    IF closed_trades # <<>> /\ is_open \in {"none", "false"}
                    THEN <<send_trades_page(address, closed_trades, <<"closed">>, 0,
                                            TradesPageSize, FALSE)>>
                    ELSE <<>>
            IN  Result(ud2, out_open \o out_closed, FALSE, 1, trades)

\* prices_cmd
prices_cmd(ud, args, resp) ==
    LET next == args # <<>> /\ Lower(args[1]) = <<"next">>
        page == IF next THEN DictGet(ud, PricesPageKey, 0) + 1 ELSE 0
        ud1 == IF next THEN DictPut(ud, PricesPageKey, page) ELSE ud
    IN  IF ~resp.ok
        THEN fetch_failed(ud1, "reply")
        ELSE LET prices == fetch_prices(resp.n)
                 f == format_prices(prices, page * PricesPageSize, PricesPageSize)
             IN  Result(ud1, <<PricesMessage("reply", f, page)>>, FALSE, 1, prices)

\* SaiGQLClient.fetch_price_by_symbol, after fetch_prices returned `prices`:
\* the first record with that symbol, any case (<<>> for None)
fetch_price_by_symbol(prices, symbol) ==
    LET symbol_upper == Upper(symbol)
        Same(p) == Upper(p.symbol) = symbol_upper
        found == SelectSeq(prices, Same)
    IN  IF found = <<>> THEN <<>> ELSE <<Head(found)>>

\* format_price_single
format_price_single(price_data) ==
    [Plain("reply", IF price_data.hasPrice THEN "price" ELSE "noprice")
        EXCEPT !.items = <<price_data>>]

\* price_cmd
price_cmd(ud, args, resp) ==
    IF args = <<>>
    THEN Result(ud, <<Plain("reply", "usage")>>, FALSE, 0, <<>>)
    ELSE IF ~resp.ok
         THEN fetch_failed(ud, "reply")
         ELSE LET prices == fetch_prices(resp.n)
                  price_data == fetch_price_by_symbol(prices, args[1])
              IN  IF price_data = <<>>
                  THEN Result(ud, <<Plain("reply", "notfound")>>, FALSE, 1, prices)
                  ELSE Result(ud, <<format_price_single(price_data[1])>>, FALSE, 1, prices)

\* callback_handler, the "prices_next" branch
callback_prices(ud, resp) ==
    LET page == DictGet(ud, PricesPageKey, 0) + 1
        ud1 == DictPut(ud, PricesPageKey, page)
    IN  IF ~resp.ok
        THEN fetch_failed(ud1, "edit")
        ELSE LET prices == fetch_prices(resp.n)
                 f == format_prices(prices, page * PricesPageSize, PricesPageSize)
             IN  Result(ud1, <<PricesMessage("edit", f, page)>>, FALSE, 1, prices)

\* Variants of get_trades: setdefault() and pop() in the place of get()
get_trades_SetDefault(ud, trades_key) ==
    [ud |-> IF trades_key \in DOMAIN ud THEN ud ELSE DictPut(ud, trades_key, <<>>),
     trades |-> DictGet(ud, trades_key, <<>>)]

get_trades_Pop(ud, trades_key) ==
    [ud |-> [k \in (DOMAIN ud) \ {trades_key} |-> ud[k]],
     trades |-> DictGet(ud, trades_key, <<>>)]

\* callback_handler: "Get trades from context"; the user_data after the
\* lookup and the list found
get_trades(ud, trades_key) ==
    [ud |-> ud, trades |-> DictGet(ud, trades_key, <<>>)]

\* callback_handler, the "trades_next:" branch
callback_trades(ud, data) ==
    LET parts == Split(data, 3)
    IN  IF Len(parts) = 4
        THEN LET address == parts[2]
                 trade_type == parts[3]
                 page_str == parts[4]
             IN  IF ~IsInt(page_str)
                 THEN \* int(page_str) raises ValueError; nothing catches it
                      Result(ud, <<>>, TRUE, 0, <<>>)
                 ELSE
                 LET page == ParseInt(page_str)
                     trades_key == TradesKey(trade_type, address)
                     got == get_trades(ud, trades_key)
                     trades == got.trades
                 IN  IF trades # <<>>
                     THEN Result(got.ud, <<send_trades_page(address, trades, trade_type, page,
                                                            TradesPageSize, TRUE)>>,
                                 FALSE, 0, <<>>)
                     ELSE Result(got.ud, <<Plain("edit", "expired")>>, FALSE, 0, <<>>)
        ELSE Result(ud, <<>>, FALSE, 0, <<>>)

callback_handler(ud, data, resp) ==
    IF data = PricesCallbackData
    THEN callback_prices(ud, resp)
    ELSE IF data # <<>> /\ StartsWith(data, <<"trades", "_", "next", ":">>)
         THEN callback_trades(ud, data)
         ELSE Result(ud, <<>>, FALSE, 0, <<>>)

\* ---------------------------------------------------------------- the state
VARIABLES
    user_data,  \* context.user_data of every user (process memory)
    chat,       \* the most recent bot messages of the chat, oldest first
    last,       \* the update handled last and what its handler did
    recent,     \* per user and address, since the process started: the last non-empty
                \* list fetch_trades returned and the arguments of that /trades
    steps       \* updates handled so far

vars == <<user_data, chat, last, recent, steps>>

\* the arguments a user types after /trades and /prices
TradeFilters == {<<>>, << <<"Open">> >>, << <<"closed">> >>, << <<"btc">> >>}
TradesArgs == {<<>>} \cup {<< a >> \o f : a \in Addresses, f \in TradeFilters}
PricesArgs == {<<>>, << <<"Next">> >>}
PriceArgs == {<<>>, << <<"btc">> >>, << <<"zzz">> >>}

\* callback data that no current message of the model carries: buttons of
\* messages no longer tracked, and data made up by a client
ForgedData ==
         {TradesCallbackData(<<"0xab">>, <<"open">>, 3),
          TradesCallbackData(<<"nibi1q">>, <<"closed">>, 1),
          TradesCallbackData(<<"0xab">>, <<"open">>, 0 - 1),
          <<"trades", "_", "next", ":", "0xab", ":", "open", ":", "abc">>,
          <<"trades", "_", "next", ":", "0xab", ":", "open", ":", "1", ":", "1">>,
          <<"trades", "_", "next", ":", "0xab", ":", "open">>,
          <<"noop">>}

\* A tracked message: its owner, what it shows, its button's callback data,
\* when it has a button, the list its page was cut from and the arguments
\* of the command that sent it, and how many callback queries have edited it
NoMessage ==
    [uid |-> "", text |-> "", page |-> 0, data |-> NoData, src |-> <<>>, by |-> <<>>,
     presses |-> 0]

\* last: the update (op, uid, input), the message a callback came from (m, and
\* shown: the message as it was), the user's user_data before (pre), what the
\* handler did, for a second delivery the outbound operations of the first
\* (prior), whether the data source was called and failed (failed), and, for a
\* call of fetch_trades on its own, the list the server returned (served)
NoLast ==
    [op |-> "none", uid |-> "", input |-> <<>>, m |-> 0, shown |-> NoMessage,
     pre |-> EmptyDict, out |-> <<>>, raised |-> FALSE, fetches |-> 0,
     fetched |-> <<>>, prior |-> <<>>, failed |-> FALSE, served |-> <<>>]

Handled(op, u, input, m, shown, pre, r, resp) ==
    [op |-> op, uid |-> u, input |-> input, m |-> m, shown |-> shown, pre |-> pre,
     out |-> r.out, raised |-> r.raised, fetches |-> r.fetches, fetched |-> r.fetched,
     prior |-> IF op = "again" THEN last.out ELSE <<>>,
     failed |-> r.fetches > 0 /\ ~resp.ok, served |-> <<>>]

NoQuery == [args |-> <<>>, list |-> <<>>]

\* The chat after the outbound operations `out` of a handler run for user u on
\* the message at position m (0 for a command): replies are appended, an edit
\* replaces the message; only the last MaxMsgs messages stay tracked.
Message(u, o, by, presses) ==
    [uid |-> u, text |-> o.text, page |-> o.page, data |-> o.data,
     src |-> IF o.data # NoData THEN o.src ELSE <<>>,
     by |-> IF o.data # NoData THEN by ELSE <<>>,
     presses |-> presses]

RECURSIVE Deliver(_, _, _, _, _)
Deliver(c, u, m, out, by) ==
    IF out = <<>> THEN c
    ELSE LET o == Head(out)
             c1 == IF o.via = "edit"
                   THEN [c EXCEPT ![m] = Message(u, o, c[m].by, c[m].presses + 1)]
                   ELSE Append(c, Message(u, o, by, 0))
         IN  Deliver(c1, u, m, Tail(out), by)

Tracked(c) == IF Len(c) > MaxMsgs THEN SubSeq(c, Len(c) - MaxMsgs + 1, Len(c)) ELSE c

Init ==
    /\ user_data = [u \in Users |-> EmptyDict]
    /\ chat = <<>>
    /\ last = NoLast
    /\ recent = [u \in Users |-> [a \in Addresses |-> NoQuery]]
    /\ steps = 0

\* A user sends /trades with arguments args
TradesCmd(u, args, resp) ==
    /\ steps < MaxSteps
    /\ LET r == trades_cmd(user_data[u], args, resp)
       IN  /\ user_data' = [user_data EXCEPT ![u] = r.ud]
           /\ chat' = Tracked(Deliver(chat, u, 0, r.out, args))
           /\ last' = Handled("trades", u, args, 0, NoMessage, user_data[u], r, resp)
           /\ recent' = IF r.fetched # <<>>
                        THEN [recent EXCEPT ![u][args[1]] = [args |-> args, list |-> r.fetched]]
                        ELSE recent
    /\ steps' = steps + 1

\* A user sends /prices with arguments args
PricesCmd(u, args, resp) ==
    /\ steps < MaxSteps
    /\ LET r == prices_cmd(user_data[u], args, resp)
       IN  /\ user_data' = [user_data EXCEPT ![u] = r.ud]
           /\ chat' = Tracked(Deliver(chat, u, 0, r.out, args))
           /\ last' = Handled("prices", u, args, 0, NoMessage, user_data[u], r, resp)
    /\ steps' = steps + 1
    /\ UNCHANGED recent

\* A user sends /price with arguments args
PriceCmd(u, args, resp) ==
    /\ steps < MaxSteps
    /\ LET r == price_cmd(user_data[u], args, resp)
       IN  /\ user_data' = [user_data EXCEPT ![u] = r.ud]
           /\ chat' = Tracked(Deliver(chat, u, 0, r.out, args))
           /\ last' = Handled("price", u, args, 0, NoMessage, user_data[u], r, resp)
    /\ steps' = steps + 1
    /\ UNCHANGED recent

\* callback_handler runs for a callback query with callback data `data` that
\* came from message m
HandleCallback(op, m, data, resp) ==
    /\ data # PricesCallbackData => resp = Failure
    /\ \E u \in {chat[m].uid} :
           \E r \in {callback_handler(user_data[u], data, resp)} :
               /\ user_data' = [user_data EXCEPT ![u] = r.ud]
               /\ chat' = Deliver(chat, u, m, r.out, <<>>)
               /\ last' = Handled(op, u, data, m, chat[m], user_data[u], r, resp)
    /\ UNCHANGED recent

\* A callback query with callback data `data` arrives for message m
Callback(op, m, data, resp) ==
    /\ steps < MaxSteps
    /\ HandleCallback(op, m, data, resp)
    /\ steps' = steps + 1

\* The user presses the "Next" button of message m
PressNext(m, resp) ==
    /\ m \in 1..Len(chat)
    /\ chat[m].data # NoData
    /\ Callback("press", m, chat[m].data, resp)

\* A callback query arrives whose data is not that of message m's button
ForgedCallback(m, data, resp) ==
    /\ m \in 1..Len(chat)
    /\ data # chat[m].data
    /\ Callback("forged", m, data, resp)

\* The callback query handled last is delivered and handled a second time
Redeliver(resp) ==
    /\ last.op \in {"press", "forged"}
    /\ Callback("again", last.m, last.input, resp)

\* The bot process restarts: user_data lives in process memory only
Restart ==
    /\ steps < MaxSteps
    /\ user_data' = [u \in Users |-> EmptyDict]
    /\ recent' = [u \in Users |-> [a \in Addresses |-> NoQuery]]
    /\ last' = [NoLast EXCEPT !.op = "restart"]
    /\ steps' = steps + 1
    /\ UNCHANGED chat

Next ==
    \/ \E u \in Talking, args \in TradesArgs, resp \in TradeResponses : TradesCmd(u, args, resp)
    \/ \E u \in Talking, args \in PricesArgs, resp \in PriceResponses : PricesCmd(u, args, resp)
    \/ \E u \in Talking, args \in PriceArgs, resp \in PriceResponses : PriceCmd(u, args, resp)
    \/ \E m \in 1..MaxMsgs, resp \in PriceResponses : PressNext(m, resp)
    \/ \E data \in ForgedData, resp \in PriceResponses : ForgedCallback(Len(chat), data, resp)
    \/ \E resp \in PriceResponses : Redeliver(resp)
    \/ Restart

Spec == Init /\ [][Next]_vars

\* SaiGQLClient.fetch_trades called on its own: the server holds n trades of an
\* account, the caller passes an open/closed filter and a base symbol
BaseSymbols == {<<>>, <<"btc">>, <<"BTC">>, <<"Btc">>, <<"eth">>, <<"sol">>}

FetchTrades(n, ledger, is_open, base_symbol) ==
    /\ steps < MaxSteps
    /\ LET trades == ServerTrades(n, ledger, is_open)
       IN  last' = [NoLast EXCEPT !.op = "fetch", !.input = base_symbol, !.fetches = 1,
                                  !.served = trades,
                                  !.fetched = fetch_trades(trades, base_symbol)]
    /\ steps' = steps + 1
    /\ UNCHANGED <<user_data, chat, recent>>

NextFetch ==
    \E n \in 0..MaxTrades, ledger \in {"allopen", "mixed"},
       is_open \in {"none", "true", "false"}, base_symbol \in BaseSymbols :
        FetchTrades(n, ledger, is_open, base_symbol)

SpecFetch == Init /\ [][NextFetch]_vars

\* One conversation that pages through what one /trades command sent: the
\* command, then presses of the "Next" buttons for as long as there is one,
\* with restarts of the process in between
StartPaging(args, n) ==
    /\ steps = 0
    /\ TradesCmd("u1", args, [ok |-> TRUE, n |-> n])

PressLatest(m) ==
    /\ m \in 1..Len(chat)
    /\ chat[m].data # NoData
    /\ HandleCallback("press", m, chat[m].data, Failure)
    /\ UNCHANGED steps

NextPaging ==
    \/ \E args \in TradesArgs, n \in 1..MaxTrades : StartPaging(args, n)
    \/ \E m \in 1..MaxMsgs : PressLatest(m)
    \/ Restart

\* the user goes on pressing while a button is shown
SpecPaging ==
    Init /\ [][NextPaging]_vars /\ WF_vars(\E m \in 1..MaxMsgs : PressLatest(m))

\* Several conversations at once: every user sends /trades and presses buttons,
\* the updates handled one after the other in any order (the Application of
\* build_app handles one update at a time)
\* what the users of the interleaved conversations type after /trades
UsersArgs == {<< a >> \o f : a \in Addresses, f \in {<<>>, << <<"btc">> >>}}

NextUsers ==
    \/ \E u \in Users, args \in UsersArgs, resp \in TradeResponses : TradesCmd(u, args, resp)
    \/ \E m \in 1..MaxMsgs, resp \in PriceResponses : PressNext(m, resp)
    \/ \E data \in ForgedData, resp \in PriceResponses : ForgedCallback(Len(chat), data, resp)

SpecUsers == Init /\ [][NextUsers]_vars

\* =================================================================== claims
\* What the formulas below read off an outbound operation
IsTradesPage(o) == o.text = "trades"
IsPricesPage(o) == o.text \in {"Oracle Prices", "No prices found."}
TrackOf(o) == IF o.header = "OPEN TRADES" THEN <<"open">> ELSE <<"closed">>
Formatted(list, track) ==
    [i \in 1..Len(list) |->
        IF track = <<"open">> THEN format_trade_open(list[i]) ELSE format_trade_closed(list[i])]
\* the list stored for the track and address that page o names
StoredList(o) == DictGet(user_data[last.uid], TradesKey(TrackOf(o), o.address), <<>>)
\* the update handled last fetched prices
PricesHandled ==
    \/ last.op = "prices"
    \/ last.op \in {"press", "forged", "again"} /\ last.input = PricesCallbackData
\* the records at positions p*ps up to min(p*ps + ps, N) of list
ExpectedPage(list, p, ps) == SubSeq(list, p * ps + 1, Min(p * ps + ps, Len(list)))
ExpectedCount(n, p, ps) == Min(ps, Max(0, n - p * ps))

RECURSIVE TradePagesFrom(_, _, _, _)
TradePagesFrom(address, trades, trade_type, page) ==
    LET o == send_trades_page(address, trades, trade_type, page, TradesPageSize, TRUE)
    IN  o.items \o (IF o.data # NoData /\ page < Len(trades)
                    THEN TradePagesFrom(address, trades, trade_type, page + 1)
                    ELSE <<>>)

RECURSIVE PricePagesFrom(_, _)
PricePagesFrom(prices, page) ==
    LET f == format_prices(prices, page * PricesPageSize, PricesPageSize)
    IN  f.page_prices \o (IF f.has_more /\ page < Len(prices)
                          THEN PricePagesFrom(prices, page + 1)
                          ELSE <<>>)

\* C2: for every stored list (the empty one too), the pages 0, 1, 2, ... up to
\* the first page without "Next", put end to end, are the list itself: the same
\* records in the same order, none twice, none left out.
C2_PagesRebuildList ==
    /\ \A u \in Users : \A k \in DOMAIN user_data[u] :
           k # PricesPageKey =>
               LET trade_type == <<k[3]>>
                   address == SubSeq(k, 5, Len(k))
                   trades == user_data[u][k]
               IN  TradePagesFrom(address, trades, trade_type, 0) = Formatted(trades, trade_type)
    /\ PricesHandled => PricePagesFrom(last.fetched, 0) = SortedPrices(last.fetched)

\* a track of more than two pages and an empty track are stored
C2_Witness ==
    \E u \in Users : \E k1, k2 \in DOMAIN user_data[u] :
        /\ k1 # PricesPageKey /\ k2 # PricesPageKey
        /\ Len(user_data[u][k1]) > 2 * TradesPageSize
        /\ user_data[u][k2] = <<>>

\* C3: an outbound page carries a "Next" button iff its end position is less
\* than the number of records; the button of trades page p names the page's
\* address, its track and page p + 1.
C3_NextIffHasMore ==
    \A i \in 1..Len(last.out) :
        LET o == last.out[i]
        IN  /\ IsTradesPage(o) =>
                   LET n == Len(StoredList(o))
                       parts == Split(o.data, 3)
                   IN  /\ (o.data # NoData) <=>
                               (Min(o.page * TradesPageSize + TradesPageSize, n) < n)
                       /\ o.data # NoData =>
                               /\ Len(parts) = 4
                               /\ parts[1] = <<"trades", "_", "next">>
                               /\ parts[2] = o.address
                               /\ parts[3] = TrackOf(o)
                               /\ IsInt(parts[4])
                               /\ ParseInt(parts[4]) = o.page + 1
            /\ (IsPricesPage(o) /\ PricesHandled) =>
                   LET n == Len(last.fetched)
                   IN  /\ (o.data # NoData) <=>
                               (Min(o.page * PricesPageSize + PricesPageSize, n) < n)
                       /\ o.data # NoData => o.data = PricesCallbackData

\* a button press was answered by an edit to a later page that has a button again
C3_Witness ==
    /\ last.op = "press"
    /\ Len(last.out) = 1
    /\ IsTradesPage(last.out[1])
    /\ last.out[1].via = "edit"
    /\ last.out[1].page >= 1
    /\ last.out[1].data # NoData

\* the update handled last was a callback query
CallbackHandled == last.op \in {"press", "forged", "again"}
TradesPrefix == <<"trades", "_", "next", ":">>

\* C4: when the "Next" button of a message showing page k is pressed, the page
\* rendered in response has index k + 1, for trade tracks and for the price
\* feed, whatever was handled in between.
C4_NextShowsFollowingPage ==
    (/\ last.op = "press"
     /\ Len(last.out) = 1
     /\ (IsTradesPage(last.out[1]) \/ last.out[1].text = "Oracle Prices"))
    => last.out[1].page = last.shown.page + 1

\* C5: handling one pagination action a second time renders the same page as
\* the first handling did and leaves the session state as the first left it.
\* (Stated for the case that both handlings rendered a page.)
RenderedPage(out) ==
    Len(out) = 1 /\ (IsTradesPage(out[1]) \/ out[1].text = "Oracle Prices")

C5_SecondDeliveryChangesNothing ==
    (last.op = "again" /\ RenderedPage(last.prior) /\ RenderedPage(last.out)) =>
        /\ last.out[1].page = last.prior[1].page
        /\ user_data[last.uid] = last.pre

\* all the ":"-separated fields of callback data
Fields(data) == Split(data, Len(data))
IsNonNegInt(s) == IsInt(s) /\ ParseInt(s) >= 0
\* trade pagination data with a wrong number of fields or a page index field
\* that is no non-negative integer
MalformedTradeData(data) ==
    /\ StartsWith(data, TradesPrefix)
    /\ (Len(Fields(data)) # 4 \/ ~IsNonNegInt(Fields(data)[4]))

\* C6: a pagination action with a malformed payload is a no-op: the handler
\* returns without raising, sends nothing and changes no session entry.
C6_MalformedIsNoOp ==
    (CallbackHandled /\ MalformedTradeData(last.input)) =>
        /\ ~last.raised
        /\ last.out = <<>>
        /\ user_data[last.uid] = last.pre

\* trade pagination data of four fields: an address, a track, a page index >= 0
WellFormedTradeData(data) ==
    /\ StartsWith(data, TradesPrefix)
    /\ Len(Fields(data)) = 4
    /\ Fields(data)[3] \in {<<"open">>, <<"closed">>}
    /\ IsNonNegInt(Fields(data)[4])
DataTrack(data) == Fields(data)[3]
DataKey(data) == TradesKey(Fields(data)[3], Fields(data)[2])
DataPage(data) == ParseInt(Fields(data)[4])

\* C7: a well-formed trade pagination action for an (address, track) that has
\* no entry in the user's session store gets exactly one edit with the
\* "expired" instruction; nothing is raised, no page rendered, no entry created.
C7_AbsentEntryMeansExpired ==
    (/\ CallbackHandled
     /\ WellFormedTradeData(last.input)
     /\ DataKey(last.input) \notin DOMAIN last.pre)
    => /\ ~last.raised
       /\ last.out = <<Plain("edit", "expired")>>
       /\ user_data[last.uid] = last.pre

\* the button of a trades page was pressed after the store had lost its entry
C7_Witness ==
    /\ last.op = "press"
    /\ WellFormedTradeData(last.input)
    /\ DataKey(last.input) \notin DOMAIN last.pre
    /\ Len(last.out) = 1

\* a trade pagination action names a stored track and a page index p with
\* p * 5 >= the number of stored records
BeyondLastPage ==
    /\ CallbackHandled
    /\ WellFormedTradeData(last.input)
    /\ DataKey(last.input) \in DOMAIN last.pre
    /\ DataPage(last.input) * TradesPageSize >= Len(last.pre[DataKey(last.input)])

C9_TradePaginationReadsOnly ==
    (CallbackHandled /\ StartsWith(last.input, TradesPrefix)) =>
        /\ user_data[last.uid] = last.pre
        /\ last.fetches = 0
        /\ (Len(last.out) = 1 /\ IsTradesPage(last.out[1])) =>
               last.out[1].src =
                   Formatted(last.pre[DataKey(last.input)], DataTrack(last.input))

\* a pressed button was answered with a page while a price page counter and
\* tracks were stored
C9_Witness ==
    /\ last.op = "press"
    /\ StartsWith(last.input, TradesPrefix)
    /\ Len(last.out) = 1
    /\ IsTradesPage(last.out[1])
    /\ PricesPageKey \in DOMAIN last.pre

\* The "Next" button pressed was issued by a /trades query, and the last
\* /trades on the same address that fetched records had other filter arguments
PressedAfterOtherFilter ==
    /\ last.op = "press"
    /\ WellFormedTradeData(last.input)
    /\ Fields(last.input)[2] \in Addresses
    /\ recent[last.uid][Fields(last.input)[2]].args # <<>>
    /\ recent[last.uid][Fields(last.input)[2]].args # last.shown.by

\* the track `track` of a fetched list, as the pages show it
TrackOfFetch(list, track) ==
    Formatted(IF track = <<"open">> THEN SelectSeq(list, IsOpenTrade)
              ELSE SelectSeq(list, NotOpenTrade), track)

\* C10 as claimed: session entries are told apart by address and filter, so
\* after two /trades queries on one address with different filters the "Next"
\* button of the first still pages through the first query's result set.
C10_Original ==
    PressedAfterOtherFilter =>
        /\ Len(last.out) = 1
        /\ IsTradesPage(last.out[1])
        /\ last.out[1].items =
               ExpectedPage(last.shown.src, DataPage(last.input), TradesPageSize)

\* C10, amended: entries are told apart by address and track only; after two
\* /trades queries on one address with different filters, the second having
\* fetched records, the "Next" button of the first pages through the same
\* track of the second query's result set, and gets the "expired" instruction
\* when that track is empty.
C10_NextReadsLatestFetch ==
    PressedAfterOtherFilter =>
        LET track == TrackOfFetch(recent[last.uid][Fields(last.input)[2]].list,
                                  DataTrack(last.input))
        IN  IF track # <<>>
            THEN /\ Len(last.out) = 1
                 /\ IsTradesPage(last.out[1])
                 /\ last.out[1].src = track
                 /\ last.out[1].items =
                        ExpectedPage(track, DataPage(last.input), TradesPageSize)
            ELSE last.out = <<Plain("edit", "expired")>>

\* the first query's button was answered with a page of another result set
C10_Witness ==
    /\ PressedAfterOtherFilter
    /\ Len(last.out) = 1
    /\ IsTradesPage(last.out[1])
    /\ last.out[1].src # last.shown.src
    /\ last.out[1].items # <<>>

\* the two session keys of an address
KeysOf(address) == {TradesKey(<<"open">>, address), TradesKey(<<"closed">>, address)}
\* a dict cut down to the keys in `keys`
Only(d, keys) == [k \in (DOMAIN d) \cap keys |-> d[k]]
\* addresses a user may type, some made of the words the keys are made of
KeyAddresses ==
    Addresses \cup {<<"closed", "_", "0xab">>, <<"open", "_", "0xab">>, <<"0xab", "_", "open">>,
                    <<"open">>, <<"closed">>}
\* the address an update names: the first argument of /trades, the second field
\* of trade pagination data
NamesAddress(l) ==
    \/ l.op = "trades" /\ l.input # <<>>
    \/ /\ l.op \in {"press", "forged", "again"}
       /\ WellFormedTradeData(l.input)
AddressOf(l) == IF l.op = "trades" THEN l.input[1] ELSE Fields(l.input)[2]
\* what the handler of update l does when it finds the dict ud
Rerun(l, ud, resp) ==
    IF l.op = "trades" THEN trades_cmd(ud, l.input, resp)
    ELSE callback_handler(ud, l.input, resp)

\* the step handles an update of user last'.uid that names an address
IsolatedStep ==
    NamesAddress(last') =>
        LET u == last'.uid
            keys == KeysOf(AddressOf(last'))
        IN  \* no entry of another conversation is created or changed
            /\ \A v \in Users \ {u} : user_data'[v] = user_data[v]
            \* no entry of another address of this conversation is created or changed
            /\ \A k \in ((DOMAIN user_data[u]) \cup (DOMAIN user_data'[u])) \ keys :
                   /\ k \in DOMAIN user_data[u]
                   /\ k \in DOMAIN user_data'[u]
                   /\ user_data'[u][k] = user_data[u][k]
            \* none is read: with only this address's entries of this user in
            \* the store, the handler sends the same and stores the same
            /\ \E resp \in TradeResponses :
                   LET r == Rerun(last', Only(user_data[u], keys), resp)
                   IN  /\ r.out = last'.out
                       /\ r.raised = last'.raised
                       /\ r.fetched = last'.fetched
                       /\ Only(r.ud, keys) = Only(user_data'[u], keys)

\* C11: with several conversations interleaved, a /trades command or a trade
\* pagination action (track open or closed) handled for user U and address A
\* creates, changes and reads no session entry of another user and no entry
\* of another address of U; the keys of two different (track, address) pairs
\* differ.
C11_Isolation ==
    /\ \A a1, a2 \in KeyAddresses : \A t1, t2 \in {<<"open">>, <<"closed">>} :
           TradesKey(t1, a1) = TradesKey(t2, a2) => (t1 = t2 /\ a1 = a2)
    /\ [][IsolatedStep]_vars

\* a user queried an address that another user holds other entries of, while
\* holding entries of another address
C11_Witness ==
    /\ last.op = "trades"
    /\ last.fetched # <<>>
    /\ \E v \in Users \ {last.uid} :
           /\ KeysOf(last.input[1]) \subseteq DOMAIN user_data[v]
           /\ Only(user_data[v], KeysOf(last.input[1])) #
                  Only(user_data[last.uid], KeysOf(last.input[1]))
    /\ \E a \in Addresses \ {last.input[1]} : KeysOf(a) \subseteq DOMAIN user_data[last.uid]

\* the records of list with isOpen true / with isOpen false or missing, in order
OpenOf(list) == LET P(t) == t.isOpen = "true" IN SelectSeq(list, P)
ClosedOf(list) == LET P(t) == t.isOpen \in {"false", "missing"} IN SelectSeq(list, P)
\* page 0 of a track as /trades replies it
IsPageZeroOf(o, address, list, track) ==
    /\ IsTradesPage(o)
    /\ o.via = "reply"
    /\ o.address = address
    /\ TrackOf(o) = track
    /\ o.page = 0
    /\ o.src = Formatted(list, track)
    /\ o.items = ExpectedPage(Formatted(list, track), 0, TradesPageSize)
\* a /trades command was handled whose fetch returned records
FetchedTrades == last.op = "trades" /\ last.fetched # <<>>

\* C12: after a /trades whose fetch returned a non-empty list L for address A,
\* the open entry of A is the records of L with isOpen true and the closed
\* entry those with isOpen false or missing, each in L's order and together
\* all of L; page 0 of the open track is sent iff it has records and the
\* filter is none or open, page 0 of the closed track iff it has records and
\* the filter is none or closed, the open page first.
C12_TracksPartitionFetch ==
    FetchedTrades =>
        LET A == last.input[1]
            L == last.fetched
            ud == user_data[last.uid]
            filter == ParseIsOpen(Tail(last.input), "none")
            open == OpenOf(L)
            closed == ClosedOf(L)
            open_sent == open # <<>> /\ filter \in {"none", "true"}
            closed_sent == closed # <<>> /\ filter \in {"none", "false"}
        IN  /\ KeysOf(A) \subseteq DOMAIN ud
            /\ ud[TradesKey(<<"open">>, A)] = open
            /\ ud[TradesKey(<<"closed">>, A)] = closed
            /\ Len(open) + Len(closed) = Len(L)
            /\ \A i \in 1..Len(L) :
                   (\E j \in 1..Len(open) : open[j] = L[i])
                       # (\E j \in 1..Len(closed) : closed[j] = L[i])
            /\ Len(last.out) = (IF open_sent THEN 1 ELSE 0) + (IF closed_sent THEN 1 ELSE 0)
            /\ open_sent => IsPageZeroOf(last.out[1], A, open, <<"open">>)
            /\ closed_sent => IsPageZeroOf(last.out[Len(last.out)], A, closed, <<"closed">>)

\* an unfiltered /trades fetched open records, closed ones and ones without
\* isOpen, and sent both pages
C12_Witness ==
    /\ FetchedTrades
    /\ Len(last.out) = 2
    /\ \E i \in 1..Len(last.fetched) : last.fetched[i].isOpen = "missing"
    /\ \E i \in 1..Len(last.fetched) : last.fetched[i].isOpen = "false"
    /\ \E i \in 1..Len(last.fetched) : last.fetched[i].isOpen = "true"

\* the stored trade tracks of a dict: every entry but the price page counter
TracksIn(d) == Only(d, (DOMAIN d) \ {PricesPageKey})

\* C13: when the call of the data source fails during /trades, /prices,
\* /price or a price pagination action, the handler sends exactly one reply
\* (an edit, for the pagination action) with the error text, has called the
\* data source once, raises nothing and leaves the stored trade tracks as they
\* were.
C13_FetchFailureIsOneErrorMessage ==
    last.failed =>
        /\ last.op \in {"trades", "prices", "price", "press", "forged", "again"}
        /\ last.out = <<Plain(IF last.op \in {"trades", "prices", "price"}
                              THEN "reply" ELSE "edit", "error")>>
        /\ last.fetches = 1
        /\ ~last.raised
        /\ TracksIn(user_data[last.uid]) = TracksIn(last.pre)

\* the fetch of a price pagination action failed while trade tracks were stored
C13_Witness ==
    /\ last.failed
    /\ last.op = "press"
    /\ last.input = PricesCallbackData
    /\ TracksIn(last.pre) # EmptyDict
    /\ user_data[last.uid] # last.pre

\* the record's upper-cased symbol is in the allow-list; its place there
IsPopular(p) == \E k \in 1..Len(POPULAR_TOKENS) : POPULAR_TOKENS[k] = Upper(p.symbol)
PopularRank(p) == CHOOSE k \in 1..Len(POPULAR_TOKENS) : POPULAR_TOKENS[k] = Upper(p.symbol)
\* the sorted price lists of the pages sent last
SortedListsSent ==
    {last.out[i].src : i \in {j \in 1..Len(last.out) :
                                  PricesHandled /\ last.out[j].text = "Oracle Prices"}}

\* C14: in the price list that is paginated, every record with a popular
\* symbol (upper-cased, in the allow-list) comes before every record without
\* one, the popular records are in the allow-list's order, and the others are
\* in ascending token id with the records without id after all records with
\* an id.
C14_PopularFirstThenById ==
    \A s \in SortedListsSent : \A i, j \in 1..Len(s) :
        i < j =>
            /\ ~(IsPopular(s[j]) /\ ~IsPopular(s[i]))
            /\ (IsPopular(s[i]) /\ IsPopular(s[j])) => PopularRank(s[i]) <= PopularRank(s[j])
            /\ (~IsPopular(s[i]) /\ ~IsPopular(s[j])) =>
                   /\ (s[i].hasId /\ s[j].hasId) => s[i].id <= s[j].id
                   /\ ~(~s[i].hasId /\ s[j].hasId)

\* two symbols are equal ignoring case
SameSymbol(s1, s2) == Lower(s1) = Lower(s2)

FetchSucceeded == last.op = "trades" /\ last.fetches = 1 /\ ~last.failed

\* C16: after every /trades whose fetch succeeded, with records or without,
\* the two entries of its address hold that fetch's result: the open entry its
\* records with isOpen true, the closed entry the others (an absent entry
\* counting as an empty one).
C16_EveryFetchOverwrites ==
    FetchSucceeded =>
        LET A == last.input[1]
            ud == user_data[last.uid]
        IN  /\ DictGet(ud, TradesKey(<<"open">>, A), <<>>) = OpenOf(last.fetched)
            /\ DictGet(ud, TradesKey(<<"closed">>, A), <<>>) = ClosedOf(last.fetched)

\* C17: in every reachable state, with the handlers of several conversations
\* interleaved, the open and the closed entry of an address in a conversation
\* are both absent, or both present and cut from one fetch result (the last
\* one with records for that address in that conversation): never one track of
\* an older fetch beside one of a newer.
C17_TracksFromOneFetch ==
    \A u \in Users : \A a \in Addresses :
        LET ud == user_data[u]
            open_key == TradesKey(<<"open">>, a)
            closed_key == TradesKey(<<"closed">>, a)
            L == recent[u][a].list
        IN  /\ (open_key \in DOMAIN ud) <=> (closed_key \in DOMAIN ud)
            /\ (open_key \in DOMAIN ud) =>
                   /\ L # <<>>
                   /\ ud[open_key] = OpenOf(L)
                   /\ ud[closed_key] = ClosedOf(L)

\* a second fetch with another result replaced both tracks of an address,
\* with another conversation's command handled in between
C17_Witness ==
    /\ FetchedTrades
    /\ KeysOf(last.input[1]) \subseteq DOMAIN last.pre
    /\ last.pre[TradesKey(<<"open">>, last.input[1])] # OpenOf(last.fetched)
    /\ last.pre[TradesKey(<<"closed">>, last.input[1])] # ClosedOf(last.fetched)
    /\ \E v \in Users \ {last.uid} : user_data[v] # EmptyDict

\* ceil(n / d)
CeilDiv(n, d) == (n + d - 1) \div d
\* no tracked message has a "Next" button
NoButtonLeft == \A m \in 1..Len(chat) : chat[m].data = NoData

\* what a press of a trades "Next" button ended in: exactly one edit, the
\* expired instruction or a page of the stored track of N >= 1 records, and
\* the page reached by the k-th press of its message has no "Next" iff
\* k = ceil(N/5) - 1
PressEndsInOneEdit ==
    (last.op = "press" /\ StartsWith(last.input, TradesPrefix)) =>
        /\ ~last.raised
        /\ Len(last.out) = 1
        /\ last.out[1].via = "edit"
        /\ \/ last.out[1] = Plain("edit", "expired")
           \/ /\ IsTradesPage(last.out[1])
              /\ DataKey(last.input) \in DOMAIN last.pre
              /\ LET N == Len(last.pre[DataKey(last.input)])
                     k == chat[last.m].presses
                 IN  /\ N >= 1
                     /\ k = last.shown.presses + 1
                     /\ k <= CeilDiv(N, TradesPageSize) - 1
                     /\ (last.out[1].data = NoData) <=> (k = CeilDiv(N, TradesPageSize) - 1)

\* page 0, sent by /trades after no press, has no "Next" iff ceil(N/5) - 1 = 0
PageZeroStartsCount ==
    FetchedTrades =>
        \A i \in 1..Len(last.out) :
            /\ last.out[i].page = 0
            /\ (last.out[i].data = NoData) <=>
                   (CeilDiv(Len(StoredList(last.out[i])), TradesPageSize) - 1 = 0)

\* C18: from page 0 of a trade track of N >= 1 stored records, with no other
\* /trades in between, pressing the "Next" button of the page rendered last
\* comes to an end: every press ends in exactly one edit (a page or the
\* expired instruction), the page without "Next" is rendered by press number
\* ceil(N/5) - 1 and by no other, and in the end no button is left.
C18_PagingTerminates ==
    /\ [](PressEndsInOneEdit /\ PageZeroStartsCount)
    /\ <>[]NoButtonLeft

\* the second press on a track of more than two pages rendered its last page
C18_Witness ==
    /\ last.op = "press"
    /\ Len(last.out) = 1
    /\ IsTradesPage(last.out[1])
    /\ last.out[1].data = NoData
    /\ chat[last.m].presses = 2
    /\ last.out[1].total > 2 * TradesPageSize

====
